---- MODULE Spec2Model ----
(***************************************************************************)
(* Model of the vibetools response-coercion engine and of the wrappers     *)
(* that drive one evaluation against an LLM backend.                       *)
(*                                                                         *)
(* Texts are sequences of one-character strings, Python values are records *)
(* [t |-> <type name>, v |-> <payload>].                                   *)
(***************************************************************************)
EXTENDS Integers, Sequences, FiniteSets, TLC

(***************************************************************************)
(* Text primitives (Python str methods used by the wrappers)               *)
(***************************************************************************)

\* characters removed by str.strip() that occur in the modelled texts; the
\* form feed is whitespace for str.strip() and not for the JSON scanner
PyWhitespace == {" ", "\n", "\t", "\r", "\f"}

\* whitespace skipped by the JSON scanner
JsonWhitespace == {" ", "\n", "\t", "\r"}

Digits == {"0", "1", "2", "3", "4", "5", "6", "7", "8", "9"}

DigitVal(c) ==
  CASE c = "0" -> 0 [] c = "1" -> 1 [] c = "2" -> 2 [] c = "3" -> 3
    [] c = "4" -> 4 [] c = "5" -> 5 [] c = "6" -> 6 [] c = "7" -> 7
    [] c = "8" -> 8 [] c = "9" -> 9

\* str.lower() on one character
LowerChar(c) ==
  CASE c = "A" -> "a" [] c = "B" -> "b" [] c = "C" -> "c" [] c = "D" -> "d"
    [] c = "E" -> "e" [] c = "F" -> "f" [] c = "G" -> "g" [] c = "H" -> "h"
    [] c = "I" -> "i" [] c = "J" -> "j" [] c = "K" -> "k" [] c = "L" -> "l"
    [] c = "M" -> "m" [] c = "N" -> "n" [] c = "O" -> "o" [] c = "P" -> "p"
    [] c = "Q" -> "q" [] c = "R" -> "r" [] c = "S" -> "s" [] c = "T" -> "t"
    [] c = "U" -> "u" [] c = "V" -> "v" [] c = "W" -> "w" [] c = "X" -> "x"
    [] c = "Y" -> "y" [] c = "Z" -> "z" [] OTHER -> c

\* str.upper() on one character (used to build the input texts)
UpperChar(c) ==
  CASE c = "a" -> "A" [] c = "b" -> "B" [] c = "c" -> "C" [] c = "d" -> "D"
    [] c = "e" -> "E" [] c = "f" -> "F" [] c = "g" -> "G" [] c = "h" -> "H"
    [] c = "i" -> "I" [] c = "j" -> "J" [] c = "k" -> "K" [] c = "l" -> "L"
    [] c = "m" -> "M" [] c = "n" -> "N" [] c = "o" -> "O" [] c = "p" -> "P"
    [] c = "q" -> "Q" [] c = "r" -> "R" [] c = "s" -> "S" [] c = "t" -> "T"
    [] c = "u" -> "U" [] c = "v" -> "V" [] c = "w" -> "W" [] c = "x" -> "X"
    [] c = "y" -> "Y" [] c = "z" -> "Z" [] OTHER -> c

Lower(s) == [i \in 1..Len(s) |-> LowerChar(s[i])]

Upper(s) == [i \in 1..Len(s) |-> UpperChar(s[i])]

Capitalize(s) == [i \in 1..Len(s) |-> IF i = 1 THEN UpperChar(s[i]) ELSE s[i]]

RECURSIVE LStrip(_)
LStrip(s) ==
  IF s # <<>> /\ Head(s) \in PyWhitespace THEN LStrip(Tail(s)) ELSE s

RECURSIVE RStrip(_)
RStrip(s) ==
  IF s # <<>> /\ s[Len(s)] \in PyWhitespace
  THEN RStrip(SubSeq(s, 1, Len(s) - 1))
  ELSE s

\* str.strip()
Strip(s) == RStrip(LStrip(s))

\* the Python expression `word in text` on strings
Contains(text, word) ==
  \E i \in 1..(Len(text) - Len(word) + 1) :
    SubSeq(text, i, i + Len(word) - 1) = word

(***************************************************************************)
(* Python values                                                           *)
(***************************************************************************)

PyStr(s) == [t |-> "str", v |-> s]

PyBool(b) == [t |-> "bool", v |-> b]

PyInt(n) == [t |-> "int", v |-> n]

\* a float is held in units of 1/FloatScale
FloatScale == 10

PyFloat(n) == [t |-> "float", v |-> n]

PyNone == [t |-> "NoneType", v |-> 0]

PyList(xs) == [t |-> "list", v |-> xs]

PyTuple(xs) == [t |-> "tuple", v |-> xs]

\* a dict is the sequence of its items [k |-> key text, val |-> value],
\* in insertion order, keys pairwise different
PyDict(items) == [t |-> "dict", v |-> items]

\* dict[key] = val: replaces the value of an existing key in place
RECURSIVE DictSet(_, _, _)
DictSet(items, key, val) ==
  IF items = <<>> THEN << [k |-> key, val |-> val] >>
  ELSE IF Head(items).k = key
       THEN << [k |-> key, val |-> val] >> \o Tail(items)
       ELSE << Head(items) >> \o DictSet(Tail(items), key, val)

DictKeys(items) == {items[i].k : i \in 1..Len(items)}

(***************************************************************************)
(* json.loads                                                              *)
(***************************************************************************)

ScanFail == [ok |-> FALSE, val |-> PyNone, next |-> 0]

ScanOk(val, next) == [ok |-> TRUE, val |-> val, next |-> next]

RECURSIVE SkipWs(_, _)
SkipWs(s, i) ==
  IF i <= Len(s) /\ s[i] \in JsonWhitespace THEN SkipWs(s, i + 1) ELSE i

RECURSIVE DigitRunEnd(_, _)
DigitRunEnd(s, i) ==
  IF i <= Len(s) /\ s[i] \in Digits THEN DigitRunEnd(s, i + 1) ELSE i

RECURSIVE DigitsValue(_)
DigitsValue(ds) ==
  IF ds = <<>> THEN 0
  ELSE DigitsValue(SubSeq(ds, 1, Len(ds) - 1)) * 10 + DigitVal(ds[Len(ds)])

\* the fractional digits in units of 1/FloatScale
FracValue(ds) == IF ds = <<>> THEN 0 ELSE DigitVal(ds[1])

StartsWith(s, i, word) ==
  /\ i + Len(word) - 1 <= Len(s)
  /\ SubSeq(s, i, i + Len(word) - 1) = word

\* NUMBER_RE: (-?(?:0|[1-9][0-9]*))(\.[0-9]+)?
ScanNumber(s, i) ==
  LET neg == i <= Len(s) /\ s[i] = "-"
      a == IF neg THEN i + 1 ELSE i
      b == IF a <= Len(s) /\ s[a] = "0" THEN a + 1 ELSE DigitRunEnd(s, a)
      c == IF b <= Len(s) /\ s[b] = "." THEN DigitRunEnd(s, b + 1) ELSE b
      ip == DigitsValue(SubSeq(s, a, b - 1))
      sign == IF neg THEN -1 ELSE 1
  IN IF b = a THEN ScanFail
     ELSE IF c > b + 1
          THEN ScanOk(PyFloat(sign * (ip * FloatScale + FracValue(SubSeq(s, b + 1, c - 1)))), c)
          ELSE ScanOk(PyInt(sign * ip), b)

\* index of the closing quote of a string whose content starts at j, 0 if
\* the string is not terminated or holds a control character
RECURSIVE StringEnd(_, _)
StringEnd(s, j) ==
  IF j > Len(s) THEN 0
  ELSE IF s[j] = "\"" THEN j
  ELSE IF s[j] \in {"\n", "\t", "\r", "\f", "\\"} THEN 0
  ELSE StringEnd(s, j + 1)

ScanString(s, i) ==
  LET e == StringEnd(s, i + 1)
  IN IF e = 0 THEN ScanFail ELSE ScanOk(PyStr(SubSeq(s, i + 1, e - 1)), e + 1)

RECURSIVE ScanValue(_, _)
RECURSIVE ParseElements(_, _, _)
RECURSIVE ParseMembers(_, _, _)
RECURSIVE MemberColon(_, _, _)
RECURSIVE MemberValue(_, _, _, _)
RECURSIVE MemberDelimiter(_, _, _)

\* JSONArray: the elements from index j on, acc holds the elements so far
ParseElements(s, j, acc) ==
  LET r == ScanValue(s, j)
      k == IF r.ok THEN SkipWs(s, r.next) ELSE 0
  IN IF ~r.ok \/ k > Len(s) THEN ScanFail
     ELSE IF s[k] = "]" THEN ScanOk(PyList(Append(acc, r.val)), k + 1)
     ELSE IF s[k] = "," THEN ParseElements(s, SkipWs(s, k + 1), Append(acc, r.val))
     ELSE ScanFail

\* JSONObject: the members from index j on (j is at the key's opening quote)
ParseMembers(s, j, acc) ==
  IF j > Len(s) \/ s[j] # "\"" THEN ScanFail
  ELSE MemberColon(s, ScanString(s, j), acc)

\* after the key: optional whitespace and the colon, then the value
MemberColon(s, key, acc) ==
  IF ~key.ok THEN ScanFail
  ELSE IF SkipWs(s, key.next) <= Len(s) /\ s[SkipWs(s, key.next)] = ":"
       THEN MemberValue(s, key.val.v, ScanValue(s, SkipWs(s, SkipWs(s, key.next) + 1)), acc)
  ELSE ScanFail

\* after the value: pairs[key] = value, then the delimiter
MemberValue(s, name, r, acc) ==
  IF ~r.ok THEN ScanFail
  ELSE MemberDelimiter(s, SkipWs(s, r.next), DictSet(acc, name, r.val))

MemberDelimiter(s, k, items) ==
  IF k > Len(s) THEN ScanFail
  ELSE IF s[k] = "}" THEN ScanOk(PyDict(items), k + 1)
  ELSE IF s[k] = "," THEN ParseMembers(s, SkipWs(s, k + 1), items)
  ELSE ScanFail

\* scanner.py_make_scanner._scan_once
ScanValue(s, i) ==
  IF i > Len(s) THEN ScanFail
  ELSE IF s[i] = "\"" THEN ScanString(s, i)
  ELSE IF s[i] = "{"
       THEN LET j == SkipWs(s, i + 1)
            IN IF j <= Len(s) /\ s[j] = "}" THEN ScanOk(PyDict(<<>>), j + 1)
               ELSE ParseMembers(s, j, <<>>)
  ELSE IF s[i] = "["
       THEN LET j == SkipWs(s, i + 1)
            IN IF j <= Len(s) /\ s[j] = "]" THEN ScanOk(PyList(<<>>), j + 1)
               ELSE ParseElements(s, j, <<>>)
  ELSE IF StartsWith(s, i, <<"n", "u", "l", "l">>) THEN ScanOk(PyNone, i + 4)
  ELSE IF StartsWith(s, i, <<"t", "r", "u", "e">>) THEN ScanOk(PyBool(TRUE), i + 4)
  ELSE IF StartsWith(s, i, <<"f", "a", "l", "s", "e">>) THEN ScanOk(PyBool(FALSE), i + 5)
  ELSE ScanNumber(s, i)

\* json.loads(text): [ok |-> FALSE] stands for the raised JSONDecodeError
JsonLoads(s) ==
  LET r == ScanValue(s, SkipWs(s, 1))
  IN IF r.ok /\ SkipWs(s, r.next) = Len(s) + 1
     THEN [ok |-> TRUE, val |-> r.val]
     ELSE [ok |-> FALSE, val |-> PyNone]

\* int(text): optional sign and decimal digits, surrounding whitespace ignored
IntOfText(text) ==
  LET s == Strip(text)
      signed == s # <<>> /\ s[1] \in {"-", "+"}
      ds == IF signed THEN Tail(s) ELSE s
  IN IF ds # <<>> /\ \A i \in 1..Len(ds) : ds[i] \in Digits
     THEN [ok |-> TRUE,
           val |-> PyInt((IF signed /\ s[1] = "-" THEN -1 ELSE 1) * DigitsValue(ds))]
     ELSE [ok |-> FALSE, val |-> PyNone]

\* float(text): optional sign, digits with an optional fraction
FloatOfText(text) ==
  LET s == Strip(text)
      signed == s # <<>> /\ s[1] \in {"-", "+"}
      ds == IF signed THEN Tail(s) ELSE s
      b == DigitRunEnd(ds, 1)
      c == IF b <= Len(ds) /\ ds[b] = "." THEN DigitRunEnd(ds, b + 1) ELSE b
      nDigits == (b - 1) + (IF c > b THEN c - b - 1 ELSE 0)
      sign == IF signed /\ s[1] = "-" THEN -1 ELSE 1
  IN IF nDigits > 0 /\ c = Len(ds) + 1
     THEN [ok |-> TRUE,
           val |-> PyFloat(sign * (DigitsValue(SubSeq(ds, 1, b - 1)) * FloatScale
                                   + FracValue(SubSeq(ds, b + 1, c - 1))))]
     ELSE [ok |-> FALSE, val |-> PyNone]

(***************************************************************************)
(* Declared return types                                                   *)
(***************************************************************************)

\* return_type=None / no return annotation
NoType == [kind |-> "none", name |-> "None"]

\* typing.Any given as the return type
AnyType == [kind |-> "any", name |-> "Any"]

\* a plain class: str, bool, int, float, dict, list
Class(n) == [kind |-> "class", name |-> n]

\* a dataclass; fields is a sequence of
\* [name |-> text, type |-> type, required |-> BOOLEAN, default |-> value]
Dataclass(n, fs) == [kind |-> "dataclass", name |-> n, fields |-> fs]

\* a TypedDict; fields is a sequence of [name, type, required]
TypedDict(n, fs) == [kind |-> "typeddict", name |-> n, fields |-> fs]

\* a parameterized generic: list[T], tuple[T1, T2], tuple[T, ...], dict[K, V];
\* origin is "list", "tuple" or "dict", args is what typing.get_args gives
Generic(origin, args) == [kind |-> origin, args |-> args]

\* the Ellipsis object in the arguments of tuple[T, ...]
EllipsisArg == [kind |-> "ellipsis", name |-> "Ellipsis"]

ListOf(elem) == Generic("list", << elem >>)

TupleOf(elems) == Generic("tuple", elems)

VariadicTupleOf(elem) == Generic("tuple", << elem, EllipsisArg >>)

DictOf(key, val) == Generic("dict", << key, val >>)

IsGeneric(expected) == expected.kind \in {"list", "tuple", "dict"}

IsClass(expected, n) == expected.kind = "class" /\ expected.name = n

FieldNames(fs) == {fs[i].name : i \in 1..Len(fs)}

RequiredNames(fs) == {fs[i].name : i \in {j \in 1..Len(fs) : fs[j].required}}

\* isinstance(value, cls) for a plain class; bool is a subclass of int
IsInstance(value, n) == value.t = n \/ (n = "int" /\ value.t = "bool")

\* variant: every key of the parsed object is kept
DictSubsetAll(items, names) == items

\* {k: v for k, v in parsed.items() if k in names}
DictSubset(items, names) == SelectSeq(items, LAMBDA it : it.k \in names)

DictGet(items, key) ==
  (CHOOSE i \in 1..Len(items) : items[i].k = key) 

\* expected(**subset) of a dataclass: TypeError when a field without default
\* is missing or a keyword is no field; the instance holds every declared field
DataclassConstruct(expected, subset) ==
  IF /\ RequiredNames(expected.fields) \subseteq DictKeys(subset)
     /\ DictKeys(subset) \subseteq FieldNames(expected.fields)
  THEN [ok |-> TRUE,
        val |-> [t |-> expected.name,
                 v |-> [i \in 1..Len(expected.fields) |->
                          LET f == expected.fields[i]
                          IN [k |-> f.name,
                              val |-> IF f.name \in DictKeys(subset)
                                      THEN subset[DictGet(subset, f.name)].val
                                      ELSE f.default]]]]
  ELSE [ok |-> FALSE, val |-> PyNone]

(***************************************************************************)
(* Type coercer                                                            *)
(***************************************************************************)

TrueLiterals ==
  { <<"t", "r", "u", "e">>, <<"t">>, <<"y", "e", "s">>, <<"y">>, <<"1">> }

FalseLiterals ==
  { <<"f", "a", "l", "s", "e">>, <<"f">>, <<"n", "o">>, <<"n">>, <<"0">> }

\* maxsize of the lru_cache of _dataclass_field_names
CacheMaxSize == 256

\* the lru_cache of _dataclass_field_names: the sequence of its entries
\* [dc |-> dataclass, names |-> field names], least recently used first
EmptyCache == <<>>

CacheHit(cache, dc) == \E i \in 1..Len(cache) : cache[i].dc = dc

\* variant: the cache answers with its latest entry, whatever the class
CacheNamesLatest(cache, dc) ==
  IF cache # <<>> THEN cache[Len(cache)].names ELSE FieldNames(dc.fields)

\* _dataclass_field_names(dc): the cached set on a hit, fields(dc) on a miss
CacheNames(cache, dc) ==
  IF CacheHit(cache, dc)
  THEN cache[CHOOSE i \in 1..Len(cache) : cache[i].dc = dc].names
  ELSE FieldNames(dc.fields)

\* variant: one set shared by all entries, overwritten by every call
CacheAfterOverwrites(cache, dc) ==
  Append([i \in 1..Len(SelectSeq(cache, LAMBDA e : e.dc # dc)) |->
            [SelectSeq(cache, LAMBDA e : e.dc # dc)[i]
               EXCEPT !.names = FieldNames(dc.fields)]],
         [dc |-> dc, names |-> FieldNames(dc.fields)])

\* the cache after the call _dataclass_field_names(dc)
CacheAfter(cache, dc) ==
  LET others == SelectSeq(cache, LAMBDA e : e.dc # dc)
      kept == IF Len(others) >= CacheMaxSize THEN Tail(others) ELSE others
  IN Append(kept, [dc |-> dc, names |-> CacheNames(cache, dc)])

\* variant: the TypeError of the construction is not caught
CoerceDataclassUncaught(parsed, expected, field_names) ==
  LET made == DataclassConstruct(expected, DictSubset(parsed.v, field_names))
  IN IF made.ok THEN made.val ELSE [t |-> "TypeError", v |-> 0]

\* variant: after a failed construction the filtered object is returned
CoerceDataclassKeepsSubset(parsed, expected, field_names) ==
  LET made == DataclassConstruct(expected, DictSubset(parsed.v, field_names))
  IN IF made.ok THEN made.val
     ELSE [t |-> "dict", v |-> DictSubset(parsed.v, field_names)]

\* the dataclass branch shared by both coercers
CoerceDataclass(parsed, expected, field_names) ==
  LET made == DataclassConstruct(expected, DictSubset(parsed.v, field_names))
  IN IF made.ok THEN made.val ELSE parsed

\* LlmWrapper._maybe_coerce (llms/llm_wrapper.py, vibecore/llms/llm_wrapper.py)
\* with the cache of _dataclass_field_names as it is at the call
LlmWrapper_maybe_coerce_cached(raw_text, expected, cache) ==
  IF expected.kind = "none" \/ IsClass(expected, "str") THEN PyStr(raw_text)
  ELSE
    LET j == JsonLoads(raw_text)
    IN IF ~j.ok THEN PyStr(raw_text)
       ELSE IF expected.kind = "dataclass" /\ j.val.t = "dict"
            THEN CoerceDataclass(j.val, expected, CacheNames(cache, expected))
       ELSE j.val

\* the call on an empty cache
LlmWrapper_maybe_coerce(raw_text, expected) ==
  LlmWrapper_maybe_coerce_cached(raw_text, expected, EmptyCache)

\* variant: the post-JSON literal test compares the text as it is spelled
PostJsonNudgeCaseSensitive(parsed, expected) ==
  LET low == IF parsed.t = "str" THEN Strip(parsed.v) ELSE <<>>
      none == [ok |-> FALSE, val |-> PyNone]
  IN IF IsClass(expected, "bool") /\ parsed.t = "bool"
       THEN [ok |-> TRUE, val |-> parsed]
     ELSE IF IsClass(expected, "bool") /\ parsed.t = "str" /\ low \in TrueLiterals
       THEN [ok |-> TRUE, val |-> PyBool(TRUE)]
     ELSE IF IsClass(expected, "bool") /\ parsed.t = "str" /\ low \in FalseLiterals
       THEN [ok |-> TRUE, val |-> PyBool(FALSE)]
     ELSE IF IsClass(expected, "bool") /\ parsed.t = "int" /\ parsed.v \in {0, 1}
       THEN [ok |-> TRUE, val |-> PyBool(parsed.v = 1)]
     ELSE IF IsClass(expected, "bool") /\ parsed.t = "float" /\ parsed.v \in {0, FloatScale}
       THEN [ok |-> TRUE, val |-> PyBool(parsed.v = FloatScale)]
     ELSE IF IsClass(expected, "int") /\ parsed.t = "str"
       THEN IntOfText(parsed.v)
     ELSE IF IsClass(expected, "float") /\ parsed.t = "str"
       THEN FloatOfText(parsed.v)
     ELSE none

\* the post-JSON nudge of VibeBaseLlm._maybe_coerce for bool, int and float;
\* [ok |-> FALSE] when no rule applies
PostJsonNudge(parsed, expected) ==
  LET low == IF parsed.t = "str" THEN Lower(Strip(parsed.v)) ELSE <<>>
      none == [ok |-> FALSE, val |-> PyNone]
  IN IF IsClass(expected, "bool") /\ parsed.t = "bool"
       THEN [ok |-> TRUE, val |-> parsed]
     ELSE IF IsClass(expected, "bool") /\ parsed.t = "str" /\ low \in TrueLiterals
       THEN [ok |-> TRUE, val |-> PyBool(TRUE)]
     ELSE IF IsClass(expected, "bool") /\ parsed.t = "str" /\ low \in FalseLiterals
       THEN [ok |-> TRUE, val |-> PyBool(FALSE)]
     ELSE IF IsClass(expected, "bool") /\ parsed.t = "int" /\ parsed.v \in {0, 1}
       THEN [ok |-> TRUE, val |-> PyBool(parsed.v = 1)]
     ELSE IF IsClass(expected, "bool") /\ parsed.t = "float" /\ parsed.v \in {0, FloatScale}
       THEN [ok |-> TRUE, val |-> PyBool(parsed.v = FloatScale)]
     ELSE IF IsClass(expected, "int") /\ parsed.t = "str"
       THEN IntOfText(parsed.v)
     ELSE IF IsClass(expected, "float") /\ parsed.t = "str"
       THEN FloatOfText(parsed.v)
     ELSE none

\* the primitive fast path of VibeBaseLlm._maybe_coerce
PrimitiveFastPath(raw_text, expected) ==
  LET s == Strip(raw_text)
      low == Lower(s)
  IN IF IsClass(expected, "bool") /\ low \in TrueLiterals
       THEN [ok |-> TRUE, val |-> PyBool(TRUE)]
     ELSE IF IsClass(expected, "bool") /\ low \in FalseLiterals
       THEN [ok |-> TRUE, val |-> PyBool(FALSE)]
     ELSE IF IsClass(expected, "int") THEN IntOfText(s)
     ELSE IF IsClass(expected, "float") THEN FloatOfText(s)
     ELSE [ok |-> FALSE, val |-> PyNone]

\* the TypedDict branch of VibeBaseLlm._maybe_coerce
CoerceTypedDict(parsed, expected) ==
  LET subset == DictSubset(parsed.v, FieldNames(expected.fields))
  IN IF RequiredNames(expected.fields) \subseteq DictKeys(subset)
     THEN PyDict(subset)
     ELSE parsed

\* the call reaches _dataclass_field_names(expected)
CallsFieldNames(raw_text, expected) ==
  /\ expected.kind = "dataclass"
  /\ JsonLoads(raw_text).ok
  /\ JsonLoads(raw_text).val.t = "dict"

\* VibeBaseLlm._maybe_coerce (vibetools/llms/vibe_base_llm.py) with the
\* cache of _dataclass_field_names as it is at the call
VibeBaseLlm_maybe_coerce_cached(raw_text, expected, cache) ==
  IF expected.kind = "none" \/ IsClass(expected, "str") THEN PyStr(raw_text)
  ELSE
    LET fast == PrimitiveFastPath(raw_text, expected)
        j == JsonLoads(raw_text)
        nudge == PostJsonNudge(j.val, expected)
    IN IF fast.ok THEN fast.val
       ELSE IF ~j.ok THEN PyStr(raw_text)
       ELSE IF nudge.ok THEN nudge.val
       ELSE IF expected.kind = "typeddict" /\ j.val.t = "dict"
            THEN CoerceTypedDict(j.val, expected)
       ELSE IF expected.kind = "dataclass" /\ j.val.t = "dict"
            THEN CoerceDataclass(j.val, expected, CacheNames(cache, expected))
       ELSE j.val

\* the call on an empty cache
VibeBaseLlm_maybe_coerce(raw_text, expected) ==
  VibeBaseLlm_maybe_coerce_cached(raw_text, expected, EmptyCache)

(***************************************************************************)
(* Shape matcher                                                           *)
(***************************************************************************)

\* LlmWrapper._is_match (llms/llm_wrapper.py, vibecore/llms/llm_wrapper.py)
LlmWrapper_is_match(value, expected) ==
  IF expected.kind = "none" THEN TRUE
  ELSE IF IsClass(expected, "str") THEN value.t = "str"
  ELSE IF expected.kind = "dataclass" THEN value.t = expected.name
  ELSE IsInstance(value, expected.name)

\* the outcome of a check: a boolean, or the TypeError raised by isinstance
Matched(b) == [raised |-> FALSE, val |-> b]

MatchRaised == [raised |-> TRUE, val |-> FALSE]

\* isinstance(x, t) for an argument t of a generic: a plain class or a
\* dataclass is checked; a parameterized generic, a TypedDict and Ellipsis
\* make isinstance raise TypeError
InstanceCheck(x, t) ==
  IF t.kind = "class" THEN Matched(IsInstance(x, t.name))
  ELSE IF t.kind = "dataclass" THEN Matched(x.t = t.name)
  ELSE MatchRaised

RECURSIVE AllInstances(_, _, _)
RECURSIVE AllInstancesNext(_, _, _, _)

\* all(isinstance(v, t) for v, t in zip(xs, ts)) from position i on
AllInstances(xs, ts, i) ==
  IF i > Len(xs) \/ i > Len(ts) THEN Matched(TRUE)
  ELSE AllInstancesNext(InstanceCheck(xs[i], ts[i]), xs, ts, i)

AllInstancesNext(r, xs, ts, i) ==
  IF r.raised \/ ~r.val THEN r ELSE AllInstances(xs, ts, i + 1)

\* isinstance(k, k_t) and isinstance(v, v_t)
ItemCheck(item, k_t, v_t) ==
  IF InstanceCheck(PyStr(item.k), k_t).raised THEN MatchRaised
  ELSE IF ~InstanceCheck(PyStr(item.k), k_t).val THEN Matched(FALSE)
  ELSE InstanceCheck(item.val, v_t)

RECURSIVE AllItems(_, _, _, _)
RECURSIVE AllItemsNext(_, _, _, _, _)

\* all(isinstance(k, k_t) and isinstance(v, v_t) for k, v in value.items())
AllItems(items, k_t, v_t, i) ==
  IF i > Len(items) THEN Matched(TRUE)
  ELSE AllItemsNext(ItemCheck(items[i], k_t, v_t), items, k_t, v_t, i)

AllItemsNext(r, items, k_t, v_t, i) ==
  IF r.raised \/ ~r.val THEN r ELSE AllItems(items, k_t, v_t, i + 1)

\* the typing constructs of _is_match, the same code in both generations
GenericMatch(value, expected) ==
  IF value.t # expected.kind THEN Matched(FALSE)
  ELSE IF expected.kind = "list" /\ expected.args # <<>>
       THEN AllInstances(value.v, [i \in 1..Len(value.v) |-> expected.args[1]], 1)
  ELSE IF expected.kind = "tuple" /\ expected.args # <<>>
       THEN IF Len(expected.args) = Len(value.v)
            THEN AllInstances(value.v, expected.args, 1)
            ELSE IF Len(expected.args) = 2 /\ expected.args[2] = EllipsisArg
            THEN AllInstances(value.v, [i \in 1..Len(value.v) |-> expected.args[1]], 1)
            ELSE Matched(FALSE)
  ELSE IF expected.kind = "dict" /\ Len(expected.args) = 2
       THEN AllItems(value.v, expected.args[1], expected.args[2], 1)
  ELSE Matched(TRUE)

\* LlmWrapper._is_match with its exceptions: isinstance(value, expected) on
\* a TypedDict class and on typing.Any raises
LlmWrapper_match(value, expected) ==
  IF IsGeneric(expected) THEN GenericMatch(value, expected)
  ELSE IF expected.kind \in {"typeddict", "any"} THEN MatchRaised
  ELSE Matched(LlmWrapper_is_match(value, expected))

RECURSIVE VibeBaseLlm_is_match(_, _)
RECURSIVE TypedDictFields(_, _, _)
RECURSIVE TypedDictFieldsNext(_, _, _, _)

\* for k, t in ann.items(): if k in value and not self._is_match(value[k], t)
TypedDictFields(items, fs, i) ==
  IF i > Len(fs) THEN Matched(TRUE)
  ELSE IF fs[i].name \notin DictKeys(items) THEN TypedDictFields(items, fs, i + 1)
  ELSE TypedDictFieldsNext(
         VibeBaseLlm_is_match(items[DictGet(items, fs[i].name)].val, fs[i].type),
         items, fs, i)

TypedDictFieldsNext(r, items, fs, i) ==
  IF r.raised \/ ~r.val THEN r ELSE TypedDictFields(items, fs, i + 1)

\* VibeBaseLlm._is_match (vibetools/llms/vibe_base_llm.py)
VibeBaseLlm_is_match(value, expected) ==
  IF expected.kind = "none" THEN Matched(TRUE)
  ELSE IF IsClass(expected, "str") THEN Matched(value.t = "str")
  ELSE IF expected.kind = "typeddict"
       THEN IF value.t # "dict" THEN Matched(FALSE)
            ELSE IF ~(RequiredNames(expected.fields) \subseteq DictKeys(value.v))
            THEN Matched(FALSE)
            ELSE TypedDictFields(value.v, expected.fields, 1)
  ELSE IF expected.kind = "dataclass" THEN Matched(value.t = expected.name)
  ELSE IF expected.kind = "class" THEN Matched(IsInstance(value, expected.name))
  ELSE IF expected.kind = "any" THEN MatchRaised
  ELSE GenericMatch(value, expected)

(***************************************************************************)
(* One evaluation                                                          *)
(***************************************************************************)

\* the three generations of the wrappers:
\*   "llms"      llms/*_wrapper.py driven by VibeCheck (retry loop)
\*   "vibecore"  vibecore/llms/*_wrapper.py driven by vibecore VibeLlmClient
\*   "vibetools" vibetools/llms/*_wrapper.py driven by vibetools VibeLlmClient
Impls == {"llms", "vibecore", "vibetools"}

Providers == {"gemini", "openai"}

\* upper bounds of the configurations explored
MaxTries == 3

MaxRetries == 2

\* VibeMode
VibeModes == {"CHILL", "EAGER", "AGGRESSIVE"}

\* backoff_base / backoff_max pairs, in hundredths of a second
BackoffSettings == { [base |-> 50, max |-> 200], [base |-> 25, max |-> 75] }

\* VibeCheckConfig: nothing validates the fields
VibeCheckConfigs ==
  { [num_tries |-> n, max_retries |-> r, backoff_base |-> b.base, backoff_max |-> b.max] :
      n \in 0..MaxTries, r \in 0..MaxRetries, b \in BackoffSettings }

\* default of VibeConfig.timeout and VibeLlmConfig.timeout, in milliseconds
DefaultTimeout == 10000

\* vibecore VibeConfig / VibeLlmConfig
VibeLlmConfigs == { [timeout |-> DefaultTimeout] }

\* vibetools VibeConfig
VibeConfigs == { [timeout |-> DefaultTimeout, vibe_mode |-> m] : m \in VibeModes }

TextTrue == <<"t", "r", "u", "e">>

TextFalsePadded == <<" ", "F", "a", "l", "s", "e", "\n">>

TextMaybe == <<"m", "a", "y", "b", "e">>

TextEight == <<"8">>

TextNotAnInt == <<"n", "o", "t", " ", "a", "n", " ", "i", "n", "t">>

TextKeyValue ==
  <<"{", "\"", "k", "e", "y", "\"", ":", " ", "\"", "v", "a", "l", "u", "e", "\"", "}">>

\* an answer with both words, "false" first
TextFalseTrue == <<"f", "a", "l", "s", "e", " ", "T", "r", "u", "e">>

\* what the backend can answer with; the empty text also stands for a
\* response whose text attribute is None
ResponseTexts ==
  { TextTrue, TextFalsePadded, TextFalseTrue, TextMaybe, TextEight, TextNotAnInt,
    TextKeyValue, <<>> }

\* one backend call either returns a text or raises
BackendResponses ==
  { [kind |-> "text", text |-> t] : t \in ResponseTexts }
    \cup { [kind |-> "raise", text |-> <<>>] }

ReturnTypes ==
  { NoType, AnyType, Class("str"), Class("bool"), Class("int"), Class("float"),
    Class("dict") }

NoOutcome == [kind |-> "none", val |-> PyNone, err |-> "", cause |-> ""]

Returned(val) == [kind |-> "value", val |-> val, err |-> "", cause |-> ""]

Raised(err, cause) == [kind |-> "error", val |-> PyNone, err |-> err, cause |-> cause]

VARIABLES
  impl,            \* which generation of the wrappers runs the evaluation
  provider,        \* "gemini" or "openai"
  op,              \* "vibe_eval_statement", "vibe_call_function" or "vibe_eval"
  config,          \* the configuration object, immutable
  return_type,     \* the declared return type
  pc,              \* caller: "PENDING", "ATTEMPTING", "RESOLVED", "FAILED"
  attempt,         \* loop variable of the retry loop
  calls,           \* number of backend calls issued
  sleeps,          \* delays passed to time.sleep, in hundredths of a second
  thread,          \* worker of _run_with_timeout: "none", "running", "finished"
  responses,       \* what the backend did on each completed call
  wrapper_result,  \* how the wrapper operation ended (result / exception queue)
  result,          \* what the caller of the public operation gets
  probe,           \* one direct use of the coercer and the matcher
  cache,           \* the lru_cache of _dataclass_field_names
  client,          \* the backend handle the client was constructed with
  peer             \* a second evaluation on the same client

vars ==
  << impl, provider, op, config, return_type, pc, attempt, calls, sleeps,
     thread, responses, wrapper_result, result, probe, cache, client, peer >>

\* no second evaluation
NoPeer ==
  [pc |-> "NONE", return_type |-> NoType, thread |-> "none", responses |-> <<>>,
   wrapper_result |-> NoOutcome, result |-> NoOutcome]

\* no direct use of the helpers
IdleProbe ==
  [phase |-> "idle", coercer |-> "", raw |-> <<>>, lit |-> <<>>, form |-> "",
   expected |-> NoType, value |-> PyNone, match |-> Matched(FALSE),
   again_value |-> PyNone, again_match |-> Matched(FALSE), others |-> 0]

\* the number of attempts of the llms wrappers: GeminiWrapper reads
\* self.config.num_tries, OpenAiWrapper its num_tries argument
NumTries == config.num_tries

\* variant: "false" is looked for before "true"
LlmsStatementAttemptFalseFirst(resp) ==
  LET output_text == Strip(Lower(resp.text))
  IN IF resp.kind = "raise" THEN [kind |-> "continue", val |-> PyNone]
     ELSE IF Contains(output_text, <<"f", "a", "l", "s", "e">>)
          THEN [kind |-> "return", val |-> PyBool(FALSE)]
     ELSE IF Contains(output_text, <<"t", "r", "u", "e">>)
          THEN [kind |-> "return", val |-> PyBool(TRUE)]
     ELSE [kind |-> "continue", val |-> PyNone]

\* one pass of the loop body of llms vibe_eval_statement
LlmsStatementAttempt(resp) ==
  LET output_text == Strip(Lower(resp.text))
  IN IF resp.kind = "raise" THEN [kind |-> "continue", val |-> PyNone]
     ELSE IF Contains(output_text, <<"t", "r", "u", "e">>)
          THEN [kind |-> "return", val |-> PyBool(TRUE)]
     ELSE IF Contains(output_text, <<"f", "a", "l", "s", "e">>)
          THEN [kind |-> "return", val |-> PyBool(FALSE)]
     ELSE [kind |-> "continue", val |-> PyNone]

\* variant: the coerced value is returned without the _is_match check
LlmsFunctionAttemptUnchecked(resp, rt) ==
  LET raw_text == Strip(resp.text)
  IN IF resp.kind = "raise" THEN [kind |-> "continue", val |-> PyNone]
     ELSE IF rt.kind = "none" THEN [kind |-> "return", val |-> PyStr(raw_text)]
     ELSE [kind |-> "return", val |-> LlmWrapper_maybe_coerce(raw_text, rt)]

\* one pass of the loop body of llms vibe_call_function; _is_match is
\* called outside the try, its TypeError leaves the loop
LlmsFunctionAttempt(resp, rt) ==
  LET raw_text == Strip(resp.text)
      value == LlmWrapper_maybe_coerce(raw_text, rt)
  IN IF resp.kind = "raise" THEN [kind |-> "continue", val |-> PyNone]
     ELSE IF rt.kind = "none" THEN [kind |-> "return", val |-> PyStr(raw_text)]
     ELSE IF LlmWrapper_match(value, rt).raised THEN [kind |-> "raise", val |-> PyNone]
     ELSE IF LlmWrapper_match(value, rt).val THEN [kind |-> "return", val |-> value]
     ELSE [kind |-> "continue", val |-> PyNone]

\* variant: a raising backend call ends the evaluation with False
LlmsAttemptGivesUp(o, resp, rt) ==
  IF resp.kind = "raise" THEN [kind |-> "return", val |-> PyBool(FALSE)]
  ELSE IF o = "vibe_eval_statement" THEN LlmsStatementAttempt(resp)
  ELSE LlmsFunctionAttempt(resp, rt)

LlmsAttempt(o, resp, rt) ==
  IF o = "vibe_eval_statement" THEN LlmsStatementAttempt(resp)
  ELSE LlmsFunctionAttempt(resp, rt)

\* variant: range(1, num_tries + 2)
LoopContinuesOneMore(a) == a <= NumTries

\* range(1, num_tries + 1) has a pass after pass a
LoopContinues(a) == a < NumTries

\* vibecore vibe_eval_statement / vibe_call_function: one backend call, every
\* exception of the body is re-raised as VibeLlmApiException
VibecoreOutcome(o, resp, rt) ==
  LET output_text == Strip(Lower(resp.text))
      raw_text == Strip(resp.text)
      value == LlmWrapper_maybe_coerce(raw_text, rt)
  IN IF resp.kind = "raise" THEN Raised("VibeLlmApiException", "Exception")
     ELSE IF o = "vibe_eval_statement"
          THEN IF Contains(output_text, <<"t", "r", "u", "e">>) THEN Returned(PyBool(TRUE))
               ELSE IF Contains(output_text, <<"f", "a", "l", "s", "e">>)
                    THEN Returned(PyBool(FALSE))
               ELSE Raised("VibeLlmApiException", "VibeResponseParseException")
     ELSE IF rt.kind = "none" THEN Returned(PyStr(raw_text))
     ELSE IF LlmWrapper_match(value, rt).raised
          THEN Raised("VibeLlmApiException", "TypeError")
     ELSE IF LlmWrapper_match(value, rt).val THEN Returned(value)
     ELSE Raised("VibeLlmApiException", "VibeResponseParseException")

\* variant: the coerced value is returned without the _is_match check
VibetoolsOutcomeUnchecked(resp, rt, c) ==
  LET raw_text == Strip(resp.text)
  IN IF resp.kind = "raise" THEN Raised("VibeLlmApiException", "Exception")
     ELSE IF rt.kind = "none" THEN Returned(PyStr(raw_text))
     ELSE Returned(VibeBaseLlm_maybe_coerce_cached(raw_text, rt, c))

\* vibetools vibe_eval: one backend call, VibeResponseParseException passes
\* through, every other exception (of the backend call or of _is_match)
\* becomes VibeLlmApiException; c is the cache of _dataclass_field_names
\* as it is when _maybe_coerce runs
VibetoolsOutcomeCached(resp, rt, c) ==
  LET raw_text == Strip(resp.text)
      value == VibeBaseLlm_maybe_coerce_cached(raw_text, rt, c)
  IN IF resp.kind = "raise" THEN Raised("VibeLlmApiException", "Exception")
     ELSE IF rt.kind = "none" THEN Returned(PyStr(raw_text))
     ELSE IF VibeBaseLlm_is_match(value, rt).raised
          THEN Raised("VibeLlmApiException", "TypeError")
     ELSE IF VibeBaseLlm_is_match(value, rt).val THEN Returned(value)
     ELSE Raised("VibeResponseParseException", "")

\* the same for an evaluation that finds the cache empty
VibetoolsOutcome(resp, rt) == VibetoolsOutcomeCached(resp, rt, EmptyCache)

\* the cache after vibe_eval has dealt with the response: _maybe_coerce
\* calls _dataclass_field_names for a JSON object and a dataclass type
CacheAfterResponse(resp, rt, c) ==
  IF resp.kind = "text" /\ CallsFieldNames(Strip(resp.text), rt)
  THEN CacheAfter(c, rt)
  ELSE c

Init ==
  /\ impl \in Impls
  /\ provider \in Providers
  /\ op \in IF impl = "vibetools" THEN {"vibe_eval"}
            ELSE {"vibe_eval_statement", "vibe_call_function"}
  /\ config \in IF impl = "llms" THEN VibeCheckConfigs
                ELSE IF impl = "vibecore" THEN VibeLlmConfigs
                ELSE VibeConfigs
  /\ return_type \in IF op = "vibe_eval_statement" THEN {NoType} ELSE ReturnTypes
  /\ pc = "PENDING"
  /\ attempt = 0
  /\ calls = 0
  /\ sleeps = <<>>
  /\ thread = "none"
  /\ responses = <<>>
  /\ wrapper_result = NoOutcome
  /\ result = NoOutcome
  /\ peer = NoPeer
  /\ probe = IdleProbe
  /\ cache = EmptyCache
  /\ client = provider

\* VibeCheck.__call__ enters the retry loop of the llms wrapper
LlmsCall ==
  /\ pc = "PENDING"
  /\ impl = "llms"
  /\ IF 1 <= NumTries
     THEN /\ pc' = "ATTEMPTING"
          /\ attempt' = 1
          /\ calls' = calls + 1
          /\ UNCHANGED << wrapper_result, result >>
     ELSE /\ pc' = "FAILED"
          /\ wrapper_result' = Raised("VibeResponseTypeException", "")
          /\ result' = wrapper_result'
          /\ UNCHANGED << attempt, calls >>
  /\ UNCHANGED << peer, probe, cache, client, impl, provider, op, config, return_type, sleeps, thread, responses >>

\* the backend call of the current pass returns or raises; the loop runs on
\* to its next backend call, to a return or to the final raise
LlmsBackendResponds(resp) ==
  /\ pc = "ATTEMPTING"
  /\ impl = "llms"
  /\ responses' = Append(responses, resp)
  /\ LET a == LlmsAttempt(op, resp, return_type)
     IN IF a.kind = "return"
        THEN /\ pc' = "RESOLVED"
             /\ wrapper_result' = Returned(a.val)
             /\ result' = wrapper_result'
             /\ UNCHANGED << attempt, calls >>
        ELSE IF a.kind = "raise"
        THEN /\ pc' = "FAILED"
             /\ wrapper_result' = Raised("TypeError", "")
             /\ result' = wrapper_result'
             /\ UNCHANGED << attempt, calls >>
        ELSE IF LoopContinues(attempt)
        THEN /\ attempt' = attempt + 1
             /\ calls' = calls + 1
             /\ UNCHANGED << pc, wrapper_result, result >>
        ELSE /\ pc' = "FAILED"
             /\ wrapper_result' = Raised("VibeResponseTypeException", "")
             /\ result' = wrapper_result'
             /\ UNCHANGED << attempt, calls >>
  /\ UNCHANGED << peer, probe, cache, client, impl, provider, op, config, return_type, sleeps, thread >>

\* VibeLlmClient.vibe_eval*: _run_with_timeout starts the worker thread, which
\* issues the backend call; the caller waits in thread.join(timeout)
ClientCall ==
  /\ pc = "PENDING"
  /\ impl \in {"vibecore", "vibetools"}
  /\ pc' = "ATTEMPTING"
  /\ thread' = "running"
  /\ attempt' = 1
  /\ calls' = calls + 1
  /\ UNCHANGED << peer, probe, cache, client, impl, provider, op, config, return_type, sleeps, responses,
                  wrapper_result, result >>

\* the backend call of the worker returns or raises; the wrapper operation
\* ends and target() puts its result or exception into the queue
ThreadBackendResponds(resp) ==
  /\ thread = "running"
  /\ thread' = "finished"
  /\ responses' = Append(responses, resp)
  /\ wrapper_result' = IF impl = "vibecore" THEN VibecoreOutcome(op, resp, return_type)
                       ELSE VibetoolsOutcomeCached(resp, return_type, cache)
  /\ cache' = IF op = "vibe_eval_statement" THEN cache
              ELSE CacheAfterResponse(resp, return_type, cache)
  /\ UNCHANGED << peer, probe, client, impl, provider, op, config, return_type, pc, attempt, calls,
                  sleeps, result >>

\* variant: what the worker leaves in the queue reaches the caller whenever
\* the worker ends, also after the timeout
JoinReturnsLate ==
  /\ pc \in {"ATTEMPTING", "FAILED"}
  /\ thread = "finished"
  /\ result' = IF wrapper_result.kind = "error"
               THEN Raised("Exception", wrapper_result.err)
               ELSE wrapper_result
  /\ result' # result
  /\ pc' = IF wrapper_result.kind = "error" THEN "FAILED" ELSE "RESOLVED"
  /\ UNCHANGED << peer, probe, cache, client, impl, provider, op, config, return_type,
                  attempt, calls, sleeps, thread, responses, wrapper_result >>

\* join() returns because the worker ended: an exception of the worker is
\* re-raised as a plain Exception chained to it, a result is returned
JoinReturns ==
  /\ pc = "ATTEMPTING"
  /\ thread = "finished"
  /\ result' = IF wrapper_result.kind = "error"
               THEN Raised("Exception", wrapper_result.err)
               ELSE wrapper_result
  /\ pc' = IF wrapper_result.kind = "error" THEN "FAILED" ELSE "RESOLVED"
  /\ UNCHANGED << peer, probe, cache, client, impl, provider, op, config, return_type, attempt, calls, sleeps,
                  thread, responses, wrapper_result >>

\* variant: a timeout starts another backend call
JoinTimesOutRetries ==
  /\ pc = "ATTEMPTING"
  /\ thread = "running"
  /\ calls < MaxTries
  /\ attempt' = attempt + 1
  /\ calls' = calls + 1
  /\ UNCHANGED << peer, probe, cache, client, impl, provider, op, config, return_type, pc, sleeps, thread,
                  responses, wrapper_result, result >>

\* join() returns after the timeout while the worker is still alive
JoinTimesOut ==
  /\ pc = "ATTEMPTING"
  /\ thread = "running"
  /\ result' = Raised("VibeTimeoutException", "")
  /\ pc' = "FAILED"
  /\ UNCHANGED << peer, probe, cache, client, impl, provider, op, config, return_type, attempt, calls, sleeps,
                  thread, responses, wrapper_result >>

Next ==
  \/ LlmsCall
  \/ \E resp \in BackendResponses : LlmsBackendResponds(resp)
  \/ ClientCall
  \/ \E resp \in BackendResponses : ThreadBackendResponds(resp)
  \/ JoinReturns
  \/ JoinTimesOut

Spec == Init /\ [][Next]_vars

(***************************************************************************)
(* Construction of the client                                              *)
(***************************************************************************)

\* what is handed in as the client: an openai.OpenAI, a genai.Client, or an
\* object of neither class
Clients == Providers \cup {"unsupported"}

\* the exception of the constructor for an unsupported client: VibeCheck
\* raises VibeClientException, the VibeLlmClient classes VibeLlmClientException
ConstructionError(i) ==
  IF i = "llms" THEN "VibeClientException" ELSE "VibeLlmClientException"

\* the constructor has been called with a client and has not yet chosen a
\* wrapper; the evaluation to come is drawn as in Init
InitClient ==
  /\ impl \in Impls
  /\ client \in Clients
  /\ provider = "none"
  /\ op \in IF impl = "vibetools" THEN {"vibe_eval"}
            ELSE {"vibe_eval_statement", "vibe_call_function"}
  /\ config \in IF impl = "llms"
                THEN { c \in VibeCheckConfigs : c.max_retries = 0 /\ c.backoff_base = 50 }
                ELSE IF impl = "vibecore" THEN VibeLlmConfigs
                ELSE VibeConfigs
  /\ return_type \in IF op = "vibe_eval_statement" THEN {NoType}
                     ELSE {NoType, Class("bool")}
  /\ pc = "UNBUILT"
  /\ attempt = 0
  /\ calls = 0
  /\ sleeps = <<>>
  /\ thread = "none"
  /\ responses = <<>>
  /\ wrapper_result = NoOutcome
  /\ result = NoOutcome
  /\ peer = NoPeer
  /\ probe = IdleProbe
  /\ cache = EmptyCache

\* variant: an unsupported client is wrapped as a Gemini client
ConstructLenient ==
  /\ pc = "UNBUILT"
  /\ pc' = "PENDING"
  /\ provider' = IF client \in Providers THEN client ELSE "gemini"
  /\ UNCHANGED << peer, result, probe, cache, client, impl, op, config, return_type, attempt,
                  calls, sleeps, thread, responses, wrapper_result >>

\* VibeCheck.__init__ / VibeLlmClient.__init__: the wrapper of the client's
\* class is stored in self.llm; for any other object the constructor raises
\* and no instance is handed to the caller
Construct ==
  /\ pc = "UNBUILT"
  /\ IF client \in Providers
     THEN /\ pc' = "PENDING"
          /\ provider' = client
          /\ UNCHANGED result
     ELSE /\ pc' = "REJECTED"
          /\ result' = Raised(ConstructionError(impl), "")
          /\ UNCHANGED provider
  /\ UNCHANGED << peer, probe, cache, client, impl, op, config, return_type, attempt, calls,
                  sleeps, thread, responses, wrapper_result >>

NextClient ==
  \/ Construct
  \/ Next

SpecClient == InitClient /\ [][NextClient]_vars

\* the same under the assumption that every step that can be taken is taken:
\* the constructor and the loops run on, every backend call returns or
\* raises, thread.join(timeout) returns
SpecClientFair == SpecClient /\ WF_vars(NextClient)

(***************************************************************************)
(* Direct use of the coercer and of the matcher                            *)
(***************************************************************************)

\* longest run of whitespace put around a literal
MaxPad == 1

\* the runs of at most n characters of the set chars
Pads(chars, n) == UNION { [1..k -> chars] : k \in 0..n }

BoolLiterals == TrueLiterals \cup FalseLiterals

Spellings == {"lower", "upper", "capitalized"}

Cased(lit, spelling) ==
  IF spelling = "upper" THEN Upper(lit)
  ELSE IF spelling = "capitalized" THEN Capitalize(lit)
  ELSE lit

\* the literal as the whole text, surrounded by whitespace
BareText(lit, spelling, left, right) == left \o Cased(lit, spelling) \o right

\* the literal as a JSON string, surrounded by JSON whitespace; inner is
\* whitespace between the quotes and the literal
JsonText(lit, spelling, left, right, inner) ==
  left \o <<"\"">> \o inner \o Cased(lit, spelling) \o inner \o <<"\"">> \o right

Coercers == {"VibeBaseLlm", "LlmWrapper"}

\* field a: int and field b: str, both without default
FieldA == [name |-> <<"a">>, type |-> Class("int"), required |-> TRUE, default |-> PyNone]

FieldB == [name |-> <<"b">>, type |-> Class("str"), required |-> TRUE, default |-> PyNone]

\* field b: str = "d"
FieldBDefault ==
  [name |-> <<"b">>, type |-> Class("str"), required |-> FALSE, default |-> PyStr(<<"d">>)]

\* field x: int
FieldX == [name |-> <<"x">>, type |-> Class("int"), required |-> TRUE, default |-> PyNone]

\* field a: list[int] of a TypedDict
FieldAList ==
  [name |-> <<"a">>, type |-> ListOf(Class("int")), required |-> TRUE, default |-> PyNone]

\* @dataclass class MyDataClass: a: int; b: str
MyDataClass == Dataclass("MyDataClass", << FieldA, FieldB >>)

\* the same with b: str = "d"
WithDefault == Dataclass("WithDefault", << FieldA, FieldBDefault >>)

\* @dataclass class Point: x: int
Point == Dataclass("Point", << FieldX >>)

\* class TypedAB(TypedDict): a: int; b: str
TypedAB == TypedDict("TypedAB", << FieldA, FieldB >>)

\* class TypedOptional(TypedDict, total=False): b: str
TypedOptional ==
  TypedDict("TypedOptional", << [FieldB EXCEPT !.required = FALSE] >>)

\* class TypedList(TypedDict): a: list[int]
TypedList == TypedDict("TypedList", << FieldAList >>)

RecordTypes == { MyDataClass, WithDefault, Point, TypedAB, TypedOptional, TypedList }

GenericTypes ==
  { ListOf(Class("int")), ListOf(ListOf(Class("int"))), ListOf(MyDataClass),
    ListOf(TypedAB), ListOf(DictOf(Class("str"), Class("int"))),
    TupleOf(<< Class("int"), Class("str") >>), VariadicTupleOf(Class("int")),
    DictOf(Class("str"), Class("int")), DictOf(Class("str"), ListOf(Class("int"))) }

TextABC ==
  << "{", "\"", "a", "\"", ":", "1", ",", "\"", "b", "\"", ":", "\"", "x",
     "\"", ",", "\"", "c", "\"", ":", "9", "}" >>

TextAB ==
  << "{", "\"", "a", "\"", ":", " ", "1", ",", " ", "\"", "b", "\"", ":",
     " ", "\"", "x", "\"", "}" >>

TextAOnlyWrong ==
  << "{", "\"", "a", "\"", ":", "\"", "z", "z", "\"", ",", "\"", "c", "\"",
     ":", "9", "}" >>

TextBOnly ==
  << "{", "\"", "b", "\"", ":", "\"", "x", "\"", "}" >>

TextAList ==
  << "{", "\"", "a", "\"", ":", "[", "1", "]", "}" >>

TextEmptyObject ==
  << "{", "}" >>

TextList12 ==
  << "[", "1", ",", " ", "2", "]" >>

TextNested ==
  << "[", "[", "1", "]", "]" >>

TextQuotedEight ==
  << "\"", "8", "\"" >>

\* JSON texts given to the coercer with the record and generic types
StructuredTexts ==
  { TextABC, TextAB, TextAOnlyWrong, TextBOnly, TextAList, TextEmptyObject,
    TextList12, TextNested, TextQuotedEight, TextKeyValue, TextMaybe, <<>> }

Item(key, val) == [k |-> key, val |-> val]

\* an instance of a dataclass with fields a and b
Instance(dc, a, b) == [t |-> dc.name, v |-> << Item(<<"a">>, a), Item(<<"b">>, b) >>]

\* values given to the matcher directly
MatchValues ==
  { PyBool(TRUE), PyInt(1), PyFloat(11), PyStr(<<"x">>), PyNone,
    PyList(<<>>), PyList(<< PyInt(1), PyInt(2) >>), PyList(<< PyInt(1), PyStr(<<"x">>) >>),
    PyList(<< PyBool(TRUE) >>), PyList(<< PyList(<< PyInt(1) >>) >>),
    PyList(<< PyList(<< PyStr(<<"x">>) >>) >>),
    PyList(<< Instance(MyDataClass, PyInt(1), PyStr(<<"x">>)) >>),
    PyList(<< PyDict(<< Item(<<"a">>, PyInt(1)), Item(<<"b">>, PyStr(<<"x">>)) >>) >>),
    PyList(<< PyDict(<< Item(<<"a">>, PyInt(1)) >>) >>),
    PyTuple(<<>>), PyTuple(<< PyInt(1) >>), PyTuple(<< PyInt(1), PyInt(2) >>),
    PyTuple(<< PyStr(<<"x">>), PyInt(2) >>), PyTuple(<< PyInt(1), PyStr(<<"x">>) >>),
    PyTuple(<< PyInt(1), PyInt(2), PyInt(3) >>),
    PyTuple(<< PyInt(1), PyStr(<<"x">>), PyInt(3) >>),
    PyDict(<<>>), PyDict(<< Item(<<"a">>, PyInt(1)) >>),
    PyDict(<< Item(<<"a">>, PyInt(1)), Item(<<"b">>, PyStr(<<"x">>)) >>),
    PyDict(<< Item(<<"a">>, PyStr(<<"x">>)), Item(<<"b">>, PyStr(<<"y">>)) >>),
    PyDict(<< Item(<<"a">>, PyList(<< PyInt(1) >>)) >>),
    PyDict(<< Item(<<"a">>, PyList(<< PyStr(<<"x">>) >>)) >>),
    PyDict(<< Item(<<"b">>, PyInt(3)) >>),
    Instance(MyDataClass, PyInt(1), PyStr(<<"x">>)),
    Instance(MyDataClass, PyStr(<<"x">>), PyInt(3)),
    Instance(WithDefault, PyInt(1), PyStr(<<"d">>)) }

\* the types given to the matcher directly
MatchTypes ==
  { AnyType, Class("bool"), Class("int"), Class("float"), Class("str"),
    Class("list"), Class("dict") } \cup RecordTypes \cup GenericTypes

ProbeOf(c, raw, lit, form, expected) ==
  [phase |-> "input", coercer |-> c, raw |-> raw, lit |-> lit, form |-> form,
   expected |-> expected, value |-> PyNone, match |-> Matched(FALSE),
   again_value |-> PyNone, again_match |-> Matched(FALSE), others |-> 0]

\* the call _is_match(value, expected) on a value that no coercion produced
MatchProbeOf(c, value, expected) ==
  [ProbeOf(c, <<>>, <<>>, "value", expected) EXCEPT !.phase = "coerced", !.value = value]

\* the calls _maybe_coerce(raw, expected) with the JSON texts and the backend
\* texts, and the calls _is_match(value, expected) on given values
StructuredInput(p) ==
  \/ \E c \in Coercers, raw \in ResponseTexts, expected \in ReturnTypes :
       p = ProbeOf(c, raw, <<>>, "other", expected)
  \/ \E c \in Coercers, raw \in StructuredTexts :
       \E expected \in RecordTypes \cup GenericTypes \cup {Class("int"), Class("dict")} :
         p = ProbeOf(c, raw, <<>>, "other", expected)
  \/ \E c \in Coercers, value \in MatchValues, expected \in MatchTypes :
       p = MatchProbeOf(c, value, expected)

\* the calls explored: boolean literals in every spelling, bare and
\* JSON-quoted, for bool; the structured inputs
ProbeInput(p) ==
  \/ \E c \in Coercers, lit \in BoolLiterals, sp \in Spellings :
       \E l \in Pads(PyWhitespace, MaxPad), r \in Pads(PyWhitespace, MaxPad) :
         p = ProbeOf(c, BareText(lit, sp, l, r), lit, "bare", Class("bool"))
  \/ \E c \in Coercers, lit \in BoolLiterals, sp \in Spellings :
       \E l \in Pads(JsonWhitespace, MaxPad), r \in Pads(JsonWhitespace, MaxPad) :
         \E inner \in {<<>>, <<" ">>} :
           p = ProbeOf(c, JsonText(lit, sp, l, r, inner), lit, "json", Class("bool"))
  \/ StructuredInput(p)

\* the state of an evaluation that has not started, around the direct calls
NoEvaluation ==
  /\ impl = "vibetools"
  /\ provider = "gemini"
  /\ client = "gemini"
  /\ op = "vibe_eval"
  /\ config = [timeout |-> DefaultTimeout, vibe_mode |-> "CHILL"]
  /\ return_type = NoType
  /\ pc = "PENDING"
  /\ attempt = 0
  /\ calls = 0
  /\ sleeps = <<>>
  /\ thread = "none"
  /\ responses = <<>>
  /\ wrapper_result = NoOutcome
  /\ result = NoOutcome
  /\ peer = NoPeer

InitCoerce ==
  /\ NoEvaluation
  /\ cache = EmptyCache
  /\ ProbeInput(probe)

\* _maybe_coerce(raw, expected) under the cache as it is
CoerceCall(p, c) ==
  IF p.coercer = "VibeBaseLlm"
  THEN VibeBaseLlm_maybe_coerce_cached(p.raw, p.expected, c)
  ELSE LlmWrapper_maybe_coerce_cached(p.raw, p.expected, c)

\* _is_match(value, expected)
MatchCall(p, value) ==
  IF p.coercer = "VibeBaseLlm"
  THEN VibeBaseLlm_is_match(value, p.expected)
  ELSE LlmWrapper_match(value, p.expected)

\* value = self._maybe_coerce(raw_text, return_type)
ProbeCoerce ==
  /\ probe.phase = "input"
  /\ probe' = [probe EXCEPT !.phase = "coerced", !.value = CoerceCall(probe, cache)]
  /\ cache' = IF CallsFieldNames(probe.raw, probe.expected)
              THEN CacheAfter(cache, probe.expected)
              ELSE cache
  /\ UNCHANGED << peer, client, impl, provider, op, config, return_type, pc, attempt, calls,
                  sleeps, thread, responses, wrapper_result, result >>

\* self._is_match(value, return_type)
ProbeMatch ==
  /\ probe.phase = "coerced"
  /\ probe' = [probe EXCEPT !.phase = "matched", !.match = MatchCall(probe, probe.value)]
  /\ UNCHANGED << peer, cache, client, impl, provider, op, config, return_type, pc, attempt,
                  calls, sleeps, thread, responses, wrapper_result, result >>

NextCoerce ==
  \/ ProbeCoerce
  \/ ProbeMatch

SpecCoerce == InitCoerce /\ [][NextCoerce]_vars

(***************************************************************************)
(* The same call made twice, among calls with other arguments              *)
(***************************************************************************)

\* most calls with other arguments made around the two calls of one pair
MaxOtherCalls == 2

\* the texts of the calls with other arguments: an object, an object that
\* lacks a required field, no JSON
OtherTexts == { TextABC, TextBOnly, TextMaybe }

\* a pair (raw, expected) is about to be coerced and matched twice; the
\* cache of _dataclass_field_names is empty, as it is after import
InitRepeat ==
  /\ NoEvaluation
  /\ cache = EmptyCache
  /\ StructuredInput(probe)
  /\ probe.phase = "input"

\* value = self._maybe_coerce(raw_text, return_type), the second time
ProbeCoerceAgain ==
  /\ probe.phase = "matched"
  /\ probe' = [probe EXCEPT !.phase = "coerced_again",
                            !.again_value = CoerceCall(probe, cache)]
  /\ cache' = IF CallsFieldNames(probe.raw, probe.expected)
              THEN CacheAfter(cache, probe.expected)
              ELSE cache
  /\ UNCHANGED << peer, client, impl, provider, op, config, return_type, pc, attempt, calls,
                  sleeps, thread, responses, wrapper_result, result >>

\* self._is_match(value, return_type), the second time
ProbeMatchAgain ==
  /\ probe.phase = "coerced_again"
  /\ probe' = [probe EXCEPT !.phase = "matched_again",
                            !.again_match = MatchCall(probe, probe.again_value)]
  /\ UNCHANGED << peer, cache, client, impl, provider, op, config, return_type, pc, attempt,
                  calls, sleeps, thread, responses, wrapper_result, result >>

\* _maybe_coerce(raw, expected) and _is_match of another pair, on the same
\* module: what it leaves behind is the entry of _dataclass_field_names
OtherCall(raw, expected) ==
  /\ probe.phase # "matched_again"
  /\ probe.others < MaxOtherCalls
  /\ << raw, expected >> # << probe.raw, probe.expected >>
  /\ probe' = [probe EXCEPT !.others = probe.others + 1]
  /\ cache' = IF CallsFieldNames(raw, expected)
              THEN CacheAfter(cache, expected)
              ELSE cache
  /\ UNCHANGED << peer, client, impl, provider, op, config, return_type, pc, attempt, calls,
                  sleeps, thread, responses, wrapper_result, result >>

NextRepeat ==
  \/ ProbeCoerce
  \/ ProbeMatch
  \/ ProbeCoerceAgain
  \/ ProbeMatchAgain
  \/ \E raw \in OtherTexts, expected \in RecordTypes : OtherCall(raw, expected)

SpecRepeat == InitRepeat /\ [][NextRepeat]_vars

(***************************************************************************)
(* Two evaluations on one client                                           *)
(***************************************************************************)

\* two calls of VibeLlmClient.vibe_eval on one vibetools client are about
\* to run, each with its own return type; they share the client, its
\* configuration and the module with the cache of _dataclass_field_names
InitPair ==
  /\ impl = "vibetools"
  /\ provider \in Providers
  /\ client = provider
  /\ op = "vibe_eval"
  /\ config \in VibeConfigs
  /\ return_type \in {Class("int"), MyDataClass, Point}
  /\ \E t \in {Class("int"), MyDataClass, Point} :
       peer = [NoPeer EXCEPT !.pc = "PENDING", !.return_type = t]
  /\ pc = "PENDING"
  /\ attempt = 0
  /\ calls = 0
  /\ sleeps = <<>>
  /\ thread = "none"
  /\ responses = <<>>
  /\ wrapper_result = NoOutcome
  /\ result = NoOutcome
  /\ probe = IdleProbe
  /\ cache = EmptyCache

\* the second vibe_eval: _run_with_timeout starts its own worker thread with
\* its own result_queue and exception_queue
PeerCall ==
  /\ peer.pc = "PENDING"
  /\ peer' = [peer EXCEPT !.pc = "ATTEMPTING", !.thread = "running"]
  /\ UNCHANGED << cache, probe, client, impl, provider, op, config, return_type, pc,
                  attempt, calls, sleeps, thread, responses, wrapper_result, result >>

\* the backend call of the second worker returns or raises; its target()
\* puts the result or the exception into the queues of its own call
PeerBackendResponds(resp) ==
  /\ peer.thread = "running"
  /\ peer' = [peer EXCEPT
                !.thread = "finished",
                !.responses = Append(@, resp),
                !.wrapper_result = VibetoolsOutcomeCached(resp, peer.return_type, cache)]
  /\ cache' = CacheAfterResponse(resp, peer.return_type, cache)
  /\ UNCHANGED << probe, client, impl, provider, op, config, return_type, pc,
                  attempt, calls, sleeps, thread, responses, wrapper_result, result >>

\* join() of the second call returns because its worker ended
PeerJoinReturns ==
  /\ peer.pc = "ATTEMPTING"
  /\ peer.thread = "finished"
  /\ peer' = [peer EXCEPT
                !.result = IF peer.wrapper_result.kind = "error"
                           THEN Raised("Exception", peer.wrapper_result.err)
                           ELSE peer.wrapper_result,
                !.pc = IF peer.wrapper_result.kind = "error" THEN "FAILED" ELSE "RESOLVED"]
  /\ UNCHANGED << cache, probe, client, impl, provider, op, config, return_type, pc,
                  attempt, calls, sleeps, thread, responses, wrapper_result, result >>

\* join() of the second call returns after the timeout, its worker alive
PeerJoinTimesOut ==
  /\ peer.pc = "ATTEMPTING"
  /\ peer.thread = "running"
  /\ peer' = [peer EXCEPT !.result = Raised("VibeTimeoutException", ""), !.pc = "FAILED"]
  /\ UNCHANGED << cache, probe, client, impl, provider, op, config, return_type, pc,
                  attempt, calls, sleeps, thread, responses, wrapper_result, result >>

\* the steps of the two evaluations in any order; the backend answers with
\* a JSON object, a number, a text that is no JSON, or raises
NextPair ==
  \/ ClientCall
  \/ \E t \in {TextABC, TextBOnly, TextEight, TextMaybe} :
       ThreadBackendResponds([kind |-> "text", text |-> t])
  \/ ThreadBackendResponds([kind |-> "raise", text |-> <<>>])
  \/ JoinReturns
  \/ JoinTimesOut
  \/ PeerCall
  \/ \E t \in {TextABC, TextBOnly, TextEight, TextMaybe} :
       PeerBackendResponds([kind |-> "text", text |-> t])
  \/ PeerBackendResponds([kind |-> "raise", text |-> <<>>])
  \/ PeerJoinReturns
  \/ PeerJoinTimesOut

\* thread.join(timeout) returns, when the worker has ended or when the
\* timeout has passed; nothing is assumed of the backend calls, which may
\* never return
SpecPair ==
  /\ InitPair
  /\ [][NextPair]_vars
  /\ WF_vars(JoinReturns \/ JoinTimesOut)
  /\ WF_vars(PeerJoinReturns \/ PeerJoinTimesOut)

(***************************************************************************)
(* Properties of the retry loop of the llms wrappers                       *)
(***************************************************************************)

IsTerminal == pc \in {"RESOLVED", "FAILED"}

DeclaredNonStr(rt) == rt.kind # "none" /\ ~IsClass(rt, "str")

\* the response is a text whose coerced value does not match the type
Mismatches(resp, rt) ==
  /\ resp.kind = "text"
  /\ ~LlmWrapper_match(LlmWrapper_maybe_coerce(Strip(resp.text), rt), rt).raised
  /\ ~LlmWrapper_match(LlmWrapper_maybe_coerce(Strip(resp.text), rt), rt).val

\* the response is a text whose coerced value matches the type
Conforms(resp, rt) ==
  /\ resp.kind = "text"
  /\ ~LlmWrapper_match(LlmWrapper_maybe_coerce(Strip(resp.text), rt), rt).raised
  /\ LlmWrapper_match(LlmWrapper_maybe_coerce(Strip(resp.text), rt), rt).val

StatementAccepts(resp) ==
  /\ resp.kind = "text"
  /\ \/ Contains(Lower(resp.text), TextTrue)
     \/ Contains(Lower(resp.text), <<"f", "a", "l", "s", "e">>)

StatementValue(resp) == PyBool(Contains(Lower(resp.text), TextTrue))

Accepts(o, resp, rt) ==
  IF o = "vibe_eval_statement" THEN StatementAccepts(resp)
  ELSE resp.kind = "text" /\ (rt.kind = "none" \/ Conforms(resp, rt))

AcceptedValue(o, resp, rt) ==
  IF o = "vibe_eval_statement" THEN StatementValue(resp)
  ELSE LlmWrapper_maybe_coerce(Strip(resp.text), rt)

Min(a, b) == IF a <= b THEN a ELSE b

Max(a, b) == IF a >= b THEN a ELSE b

\* the delay that is documented to follow the i-th failed attempt
BackoffDelay(cfg, i) == Min(cfg.backoff_base * 2^(i - 1), cfg.backoff_max)

\* C3: the llms wrapper sleeps min(backoff_base * 2^(i-1), backoff_max) after
\* its i-th failed attempt and before attempt i+1, so that an evaluation that
\* has issued n >= 1 backend calls has recorded exactly n-1 delays.
C3_BackoffBetweenAttempts ==
  (impl = "llms" /\ calls >= 1) =>
    /\ Len(sleeps) = calls - 1
    /\ \A i \in 1..Len(sleeps) : sleeps[i] = BackoffDelay(config, i)

\* C4: a join() that returns while the worker is still running ends the
\* evaluation with the timeout error without starting another backend call,
\* and after the timeout error no backend call is started and the outcome
\* stays what it is.
C4_TimeoutIsFatal ==
  [][ /\ (pc = "ATTEMPTING" /\ thread = "running" /\ thread' = "running")
         => /\ pc' = "FAILED"
            /\ result' = Raised("VibeTimeoutException", "")
            /\ calls' = calls
            /\ attempt' = attempt
      /\ result.err = "VibeTimeoutException"
         => /\ calls' = calls
            /\ calls = 1
            /\ pc' = "FAILED"
            /\ result' = result ]_vars

\* the call timed out and the abandoned worker ended later: still one call
C4_Witness ==
  /\ impl = "vibetools"
  /\ pc = "FAILED"
  /\ result = Raised("VibeTimeoutException", "")
  /\ thread = "finished"
  /\ Len(responses) = 1
  /\ calls = 1

\* C6: when every backend call of the evaluation returned a text and the
\* wrapper operation of vibecore or vibetools ended with an error, that error
\* is VibeResponseParseException.
C6_ShapeFailureIsParseException ==
  ( /\ impl \in {"vibecore", "vibetools"}
    /\ wrapper_result.kind = "error"
    /\ \A i \in 1..Len(responses) : responses[i].kind = "text" )
  => wrapper_result.err = "VibeResponseParseException"

\* C7: an evaluation of the llms wrapper whose every backend call raised has
\* made exactly num_tries calls when it fails, and fails with
\* VibeLlmApiException.
C7_AllRaiseEndsInApiException ==
  ( /\ impl = "llms"
    /\ pc = "FAILED"
    /\ Len(responses) >= 1
    /\ \A i \in 1..Len(responses) : responses[i].kind = "raise" )
  => /\ calls = config.num_tries
     /\ result.err = "VibeLlmApiException"

\* the attempts documented for each VibeMode
ModeAttempts(m) ==
  CASE m = "CHILL" -> 1 [] m = "EAGER" -> 2 [] m = "AGGRESSIVE" -> 3

\* C8: when vibe_eval of the vibetools wrappers ends with an error, it has
\* made as many backend calls as the configured VibeMode allows: 1 for CHILL,
\* 2 for EAGER, 3 for AGGRESSIVE, for both providers.
C8_ModeFixesAttempts ==
  (impl = "vibetools" /\ wrapper_result.kind = "error")
    => calls = ModeAttempts(config.vibe_mode)

\* C9: an evaluation of the llms wrapper, configured with num_tries >= 1,
\* that fails has made max(num_tries, max_retries + 1) backend calls.
C9_AttemptsAreMaxOfBothKnobs ==
  (impl = "llms" /\ config.num_tries >= 1 /\ pc = "FAILED")
    => calls = Max(config.num_tries, config.max_retries + 1)

(***************************************************************************)
(* Properties of the coercer                                               *)
(***************************************************************************)

\* C10: for the bool target VibeBaseLlm._maybe_coerce gives True for every
\* text that trimmed and lower-cased is one of true, t, yes, y, 1 and False
\* for every text that trimmed and lower-cased is one of false, f, no, n, 0,
\* and gives the same for each of these literals written as a JSON string.
C10_BoolLiteralsCoerce ==
  ( /\ probe.phase \in {"coerced", "matched"}
    /\ probe.coercer = "VibeBaseLlm"
    /\ IsClass(probe.expected, "bool") )
  => /\ Lower(Strip(probe.raw)) \in TrueLiterals => probe.value = PyBool(TRUE)
     /\ Lower(Strip(probe.raw)) \in FalseLiterals => probe.value = PyBool(FALSE)
     /\ probe.form = "bare" => Lower(Strip(probe.raw)) = probe.lit
     /\ (probe.form = "json" /\ probe.lit \in TrueLiterals)
          => probe.value = PyBool(TRUE)
     /\ (probe.form = "json" /\ probe.lit \in FalseLiterals)
          => probe.value = PyBool(FALSE)
     /\ (probe.raw = <<"\"", "1", "\"">>) => probe.value = PyBool(TRUE)

\* "1" in JSON quotes for bool
C10_Witness ==
  /\ probe.phase = "coerced"
  /\ probe.coercer = "VibeBaseLlm"
  /\ IsClass(probe.expected, "bool")
  /\ probe.form = "json"
  /\ probe.raw = <<"\"", "1", "\"">>
  /\ probe.value = PyBool(TRUE)

(***************************************************************************)
(* Coercion of a JSON object to a record                                   *)
(***************************************************************************)

\* the value a record (dataclass instance or dict) holds under a name
RecordValue(value, name) == value.v[DictGet(value.v, name)].val

\* value is the record of type expected populated from the JSON object: it
\* is of the record type, every declared field that occurs in the object
\* holds the object's value, no key besides the declared fields is kept; a
\* declared field the object lacks holds its default (dataclass instance)
\* or is absent (TypedDict)
PopulatedFrom(value, object, expected) ==
  /\ value.t = IF expected.kind = "dataclass" THEN expected.name ELSE "dict"
  /\ DictKeys(value.v) \subseteq FieldNames(expected.fields)
  /\ \A i \in 1..Len(expected.fields) :
       LET f == expected.fields[i]
       IN IF f.name \in DictKeys(object.v)
          THEN /\ f.name \in DictKeys(value.v)
               /\ RecordValue(value, f.name) = RecordValue(object, f.name)
          ELSE IF expected.kind = "dataclass"
               THEN /\ f.name \in DictKeys(value.v)
                    /\ RecordValue(value, f.name) = f.default
               ELSE f.name \notin DictKeys(value.v)

\* the call coerces a JSON object text to a record type whose required
\* fields are all keys of the object
ObjectForRecord(p) ==
  /\ p.form = "other"
  /\ p.expected.kind \in {"dataclass", "typeddict"}
  /\ JsonLoads(p.raw).ok
  /\ JsonLoads(p.raw).val.t = "dict"
  /\ RequiredNames(p.expected.fields) \subseteq DictKeys(JsonLoads(p.raw).val.v)

\* C11: VibeBaseLlm._maybe_coerce of a well-formed JSON object text with a
\* record type (dataclass or TypedDict) whose required fields are all keys of
\* the object returns a record of that type that holds the declared fields
\* occurring in the object, each with the object's value, and none of the
\* undeclared keys.
C11_ObjectCoercesToRecord ==
  ( /\ probe.phase \in {"coerced", "matched"}
    /\ probe.coercer = "VibeBaseLlm"
    /\ ObjectForRecord(probe) )
  => PopulatedFrom(probe.value, JsonLoads(probe.raw).val, probe.expected)

\* {"a":1,"b":"x","c":9} with fields a: int, b: str gave the record a=1, b="x"
C11_Witness ==
  /\ probe.phase = "coerced"
  /\ probe.coercer = "VibeBaseLlm"
  /\ probe.raw = TextABC
  /\ probe.expected = MyDataClass
  /\ ObjectForRecord(probe)
  /\ probe.value = Instance(MyDataClass, PyInt(1), PyStr(<<"x">>))

(***************************************************************************)
(* The shape matcher against the shapes of the types                       *)
(***************************************************************************)

RECURSIVE ShapeMatches(_, _)

\* value has the shape of the type: a primitive is of exactly that type, a
\* list, tuple or dict has elements that have the shapes of the arguments, a
\* record is of the record type with every required field present and every
\* present field of the shape declared for it
ShapeMatches(value, shape) ==
  IF shape.kind = "class" THEN value.t = shape.name
  ELSE IF shape.kind = "list"
       THEN /\ value.t = "list"
            /\ \A i \in 1..Len(value.v) : ShapeMatches(value.v[i], shape.args[1])
  ELSE IF shape.kind = "tuple" /\ Len(shape.args) = 2 /\ shape.args[2] = EllipsisArg
       THEN /\ value.t = "tuple"
            /\ \A i \in 1..Len(value.v) : ShapeMatches(value.v[i], shape.args[1])
  ELSE IF shape.kind = "tuple"
       THEN /\ value.t = "tuple"
            /\ Len(value.v) = Len(shape.args)
            /\ \A i \in 1..Len(value.v) : ShapeMatches(value.v[i], shape.args[i])
  ELSE IF shape.kind = "dict"
       THEN /\ value.t = "dict"
            /\ \A i \in 1..Len(value.v) :
                 /\ ShapeMatches(PyStr(value.v[i].k), shape.args[1])
                 /\ ShapeMatches(value.v[i].val, shape.args[2])
  ELSE IF shape.kind \in {"dataclass", "typeddict"}
       THEN /\ value.t = IF shape.kind = "dataclass" THEN shape.name ELSE "dict"
            /\ RequiredNames(shape.fields) \subseteq DictKeys(value.v)
            /\ \A i \in 1..Len(shape.fields) :
                 shape.fields[i].name \in DictKeys(value.v)
                 => ShapeMatches(RecordValue(value, shape.fields[i].name),
                                 shape.fields[i].type)
  ELSE FALSE

\* the call VibeBaseLlm._is_match(probe.value, probe.expected) has ended
MatcherEnded == probe.phase = "matched" /\ probe.coercer = "VibeBaseLlm"

\* the call returned (did not raise) the answer of the shapes
AnswersByShape ==
  /\ ~probe.match.raised
  /\ probe.match.val = ShapeMatches(probe.value, probe.expected)

\* C12: VibeBaseLlm._is_match(value, k) for k in bool, int, float returns
\* True exactly when the type of value is k itself: a bool is no match for
\* int, an int is no match for float.
C12_PrimitiveMatchIsExact ==
  ( /\ MatcherEnded
    /\ probe.expected \in {Class("bool"), Class("int"), Class("float")} )
  => AnswersByShape

\* C13: VibeBaseLlm._is_match(value, list[T]) returns True exactly when
\* value is a list whose elements all have the shape T, whatever kind of
\* shape T is, and returns False, without raising, otherwise.
C13_ListMatchIsRecursive ==
  (MatcherEnded /\ probe.expected.kind = "list") => AnswersByShape

\* C14: VibeBaseLlm._is_match(value, tuple[...]) returns True exactly when,
\* for tuple[T1, .., Tn], value has n elements of the shapes T1..Tn in that
\* order and, for tuple[T, ...], every element of value has the shape T,
\* for every length of value.
C14_TupleMatchByArity ==
  (MatcherEnded /\ probe.expected.kind = "tuple") => AnswersByShape

\* C15: VibeBaseLlm._is_match(value, R) for a record type R returns True
\* exactly when value is of type R, holds every required field, and every
\* field it holds has the shape declared for the field.
C15_RecordMatchChecksFields ==
  (MatcherEnded /\ probe.expected.kind \in {"dataclass", "typeddict"}) => AnswersByShape

(***************************************************************************)
(* What the coercer returns                                                *)
(***************************************************************************)

\* a call of _maybe_coerce has ended (the probes of the matcher alone start
\* with a given value)
CoercerEnded == probe.phase \in {"coerced", "matched"} /\ probe.form # "value"

IsOriginalText == probe.value = PyStr(probe.raw)

IsParsedJson == JsonLoads(probe.raw).ok /\ probe.value = JsonLoads(probe.raw).val

IsConstructedRecord ==
  /\ ObjectForRecord(probe)
  /\ PopulatedFrom(probe.value, JsonLoads(probe.raw).val, probe.expected)

\* a bool, int or float made from the text or from the parsed JSON value
IsConvertedPrimitive ==
  /\ probe.expected \in {Class("bool"), Class("int"), Class("float")}
  /\ probe.value.t = probe.expected.name

\* C16 as stated: _maybe_coerce never raises and returns the original text,
\* the parsed JSON value or a constructed record.
C16_ReturnsTextJsonOrRecord ==
  CoercerEnded => (IsOriginalText \/ IsParsedJson \/ IsConstructedRecord)

\* C16 amended: _maybe_coerce (VibeBaseLlm and LlmWrapper) never raises, for
\* every text and every type; it returns the original text, the parsed JSON
\* value, a constructed record or, for a bool, int or float type, a value of
\* that type converted from the text or from the parsed JSON value.
C16_CoerceNeverRaises ==
  CoercerEnded
  => (IsOriginalText \/ IsParsedJson \/ IsConstructedRecord \/ IsConvertedPrimitive)

\* the empty text with a dataclass type: json.loads raised inside the
\* coercer, the text came back
C16_Witness ==
  /\ CoercerEnded
  /\ probe.raw = <<>>
  /\ probe.expected = MyDataClass
  /\ ~JsonLoads(probe.raw).ok
  /\ probe.value = PyStr(<<>>)

(***************************************************************************)
(* Repeating a call                                                        *)
(***************************************************************************)

\* C17: _maybe_coerce followed by _is_match, run twice on the same pair
\* (raw, expected), gives the same coerced value and the same match result
\* (or the same raised error) both times, whatever calls with other pairs
\* are made before, between and after them.
C17_RepeatGivesSameResults ==
  probe.phase = "matched_again"
  => /\ probe.again_value = probe.value
     /\ probe.again_match = probe.match

\* {"a":1,"b":"x","c":9} with MyDataClass was coerced and matched twice with
\* calls for other dataclasses in between, which the cache remembers
C17_Witness ==
  /\ probe.phase = "matched_again"
  /\ probe.raw = TextABC
  /\ probe.expected = MyDataClass
  /\ probe.others = MaxOtherCalls
  /\ Len(cache) >= 2
  /\ probe.again_value = Instance(MyDataClass, PyInt(1), PyStr(<<"x">>))
  /\ probe.again_match = Matched(TRUE)

(***************************************************************************)
(* Evaluations without a declared return type                              *)
(***************************************************************************)

\* no return annotation / return_type=None, or typing.Any
Undeclared(rt) == rt \in {NoType, AnyType}

\* C18: an evaluation of a function call (llms vibe_call_function, vibetools
\* vibe_eval) without a declared return type, or with typing.Any, ends at
\* the first backend call that returns: the wrapper returns the stripped
\* text of that response, unparsed and unchecked; such an evaluation never
\* ends with the response-type / response-parse error.
C18_UndeclaredAcceptsFirstResponse ==
  ( /\ impl \in {"llms", "vibetools"}
    /\ op \in {"vibe_call_function", "vibe_eval"}
    /\ (impl = "llms" => config.num_tries >= 1)
    /\ Undeclared(return_type) )
  => /\ \A i \in 1..Len(responses) :
          responses[i].kind = "text"
          => /\ Len(responses) = i
             /\ wrapper_result = Returned(PyStr(Strip(responses[i].text)))
     /\ wrapper_result.err \notin {"VibeResponseTypeException", "VibeResponseParseException"}

(***************************************************************************)
(* Statement evaluation of the llms wrappers                               *)
(***************************************************************************)

HasTrue(resp) == resp.kind = "text" /\ Contains(Lower(resp.text), <<"t", "r", "u", "e">>)

HasFalse(resp) ==
  resp.kind = "text" /\ Contains(Lower(resp.text), <<"f", "a", "l", "s", "e">>)

C20_UnsupportedClientIsRejected ==
  client \notin Providers
  => /\ pc \in {"UNBUILT", "REJECTED"}
     /\ provider = "none"
     /\ calls = 0
     /\ attempt = 0
     /\ thread = "none"
     /\ responses = <<>>
     /\ wrapper_result = NoOutcome
     /\ (pc = "UNBUILT" => result = NoOutcome)
     /\ (pc = "REJECTED" => result = Raised(ConstructionError(impl), ""))

\* VibeLlmClient(MagicMock(), ...) of vibetools has raised
C20_Witness ==
  /\ impl = "vibetools"
  /\ client = "unsupported"
  /\ pc = "REJECTED"
  /\ result = Raised("VibeLlmClientException", "")
  /\ calls = 0

(***************************************************************************)
(* What the caller of VibeLlmClient.vibe_eval receives                     *)
(***************************************************************************)

\* C21: a VibeResponseParseException or VibeLlmApiException with which the
\* wrapper's vibe_eval ends under _run_with_timeout is what the caller of
\* VibeLlmClient.vibe_eval (vibetools) receives: an error of that same class.
C21_ErrorKindReachesCaller ==
  ( /\ impl = "vibetools"
    /\ pc = "FAILED"
    /\ result.err # "VibeTimeoutException" )
  => /\ wrapper_result.kind = "error"
     /\ result.err = wrapper_result.err

(***************************************************************************)
(* The life of an evaluation                                               *)
(***************************************************************************)

\* the steps of one evaluation: PENDING to ATTEMPTING by the first backend
\* call; in ATTEMPTING a further backend call (retry), the end of the
\* worker's call, or the end of the evaluation with a value (RESOLVED) or
\* with an error (FAILED); after the end nothing of the evaluation changes
\* and no backend call or delay is added
LifecycleStep ==
  /\ pc = "PENDING" => (pc' = "ATTEMPTING" /\ calls' = calls + 1)
  /\ pc = "ATTEMPTING" =>
       \/ pc' = "ATTEMPTING" /\ result' = NoOutcome /\ calls' \in {calls, calls + 1}
       \/ pc' = "RESOLVED" /\ result'.kind = "value" /\ calls' = calls
       \/ pc' = "FAILED" /\ result'.kind = "error" /\ calls' = calls
  /\ pc \in {"RESOLVED", "FAILED"} =>
       /\ pc' = pc
       /\ result' = result
       /\ calls' = calls
       /\ attempt' = attempt
       /\ sleeps' = sleeps

\* the attempt policy allows an attempt (VibeCheckConfig.num_tries >= 1)
AllowsAnAttempt == impl = "llms" => config.num_tries >= 1

\* C22 for the policies that allow an attempt: the evaluation goes from
\* PENDING to ATTEMPTING, may return to ATTEMPTING by a retry, and ends
\* RESOLVED with a value or FAILED with an error; when every backend call
\* returns, raises or is timed out, every evaluation reaches one of the two;
\* once there, its state, its result and its numbers of backend calls and
\* delays stay as they are, also after a timeout whose worker ends later.
C22_LifecycleTerminates ==
  /\ [][AllowsAnAttempt => LifecycleStep]_vars
  /\ [](pc = "RESOLVED" => result.kind = "value")
  /\ [](pc = "FAILED" => result.kind = "error")
  /\ (pc = "PENDING") ~> (pc \in {"RESOLVED", "FAILED"})

\* an evaluation ended by the timeout whose worker ended afterwards
C22_Witness ==
  /\ pc = "FAILED"
  /\ result = Raised("VibeTimeoutException", "")
  /\ thread = "finished"
  /\ calls = 1

\* C22: every evaluation goes from PENDING to ATTEMPTING, may return to
\* ATTEMPTING by a retry, ends RESOLVED or FAILED and then changes no more.
\* With an attempt policy of no attempts (num_tries = 0) the evaluation goes
\* from PENDING to FAILED without entering ATTEMPTING.
C22_EveryEvaluationAttempts == [][LifecycleStep]_vars

(***************************************************************************)
(* Backend calls in flight                                                 *)
(***************************************************************************)

\* the backend calls of the evaluation that have been started and have
\* neither returned nor raised
InFlight == calls - Len(responses)

\* C23: at most one backend call of an evaluation is in flight, and a further
\* backend call is started only when every earlier one has returned or
\* raised: the retries of the llms loop follow one another, and the worker
\* thread of _run_with_timeout makes one call.
C23_RetriesAreSequential ==
  /\ InFlight \in {0, 1}
  /\ pc \in {"PENDING", "UNBUILT", "REJECTED"} => calls = 0
  /\ (pc = "ATTEMPTING" /\ impl = "llms") => (InFlight = 1 /\ attempt = calls)
  /\ (pc = "ATTEMPTING" /\ impl # "llms") => (InFlight = 1 <=> thread = "running")
  /\ (pc = "RESOLVED") => InFlight = 0

\* the third attempt of a retry loop is in flight, the first two have ended
C23_Witness ==
  /\ impl = "llms"
  /\ pc = "ATTEMPTING"
  /\ calls = 3
  /\ Len(responses) = 2

(***************************************************************************)
(* Responses that do not fit the declared type                             *)
(***************************************************************************)

\* the call coerces a JSON object text to a record type of which the object
\* lacks a required field
ObjectLacksRequired(p) ==
  /\ p.form = "other"
  /\ p.expected.kind \in {"dataclass", "typeddict"}
  /\ JsonLoads(p.raw).ok
  /\ JsonLoads(p.raw).val.t = "dict"
  /\ ~ (RequiredNames(p.expected.fields) \subseteq DictKeys(JsonLoads(p.raw).val.v))

\* a backend response with the given text
TextResponse(t) == [kind |-> "text", text |-> t]

\* C26: for a record type (dataclass or TypedDict) and a JSON object that
\* lacks a required field, VibeBaseLlm._maybe_coerce returns the parsed
\* object as it is, with its undeclared keys, _is_match answers False, and
\* vibe_eval ends the attempt with VibeResponseParseException.
C26_MissingFieldIsRejected ==
  ( /\ probe.phase = "matched"
    /\ probe.coercer = "VibeBaseLlm"
    /\ ObjectLacksRequired(probe) )
  => /\ probe.value = JsonLoads(probe.raw).val
     /\ probe.match = Matched(FALSE)
     /\ VibetoolsOutcome(TextResponse(probe.raw), probe.expected)
          = Raised("VibeResponseParseException", "")

\* {"b":"x","c":9} for a dataclass with the required field a came back as
\* the object with the undeclared key c and was rejected
C26_Witness ==
  /\ probe.phase = "matched"
  /\ probe.coercer = "VibeBaseLlm"
  /\ ObjectLacksRequired(probe)
  /\ probe.expected.kind = "dataclass"
  /\ probe.value.t = "dict"
  /\ DictKeys(probe.value.v) \ FieldNames(probe.expected.fields) # {}
  /\ probe.match = Matched(FALSE)

\* the text is read neither by the fast path of the primitive types nor by
\* json.loads
Unparsable(raw_text, expected) ==
  /\ ~PrimitiveFastPath(raw_text, expected).ok
  /\ ~JsonLoads(raw_text).ok

\* a declared type other than str; typing.Any declares no shape
DeclaredShape(expected) ==
  /\ expected.kind \notin {"none", "any"}
  /\ ~IsClass(expected, "str")

\* C27: for every declared type other than str and every text that neither
\* the fast path nor json.loads reads, _maybe_coerce returns the text as it
\* was given, _is_match answers False for it, and the pass of the retry loop
\* of vibe_call_function goes on to the next attempt. With a TypedDict type
\* the loop of the llms wrappers is left by the TypeError of isinstance.
C27_UnparsableTextIsRetried ==
  ( /\ probe.phase = "matched"
    /\ probe.form # "value"
    /\ DeclaredShape(probe.expected)
    /\ Unparsable(probe.raw, probe.expected) )
  => /\ probe.value = PyStr(probe.raw)
     /\ probe.match = Matched(FALSE)
     /\ LlmsFunctionAttempt(TextResponse(probe.raw), probe.expected).kind = "continue"

\* the parsed JSON array has the length and the element types of the tuple
\* type
ArrayFitsTuple(parsed, shape) ==
  /\ parsed.t = "list"
  /\ ShapeMatches([parsed EXCEPT !.t = "tuple"], shape)

\* C28: for a tuple type and a JSON array whose length and elements fit it,
\* VibeBaseLlm._maybe_coerce returns the parsed array, _is_match accepts it
\* and vibe_eval returns it. json.loads gives a list, and _is_match answers
\* False for a list at `isinstance(value, origin)`.
C28_ArrayFitsTupleTarget ==
  ( /\ probe.phase = "matched"
    /\ probe.coercer = "VibeBaseLlm"
    /\ probe.form # "value"
    /\ probe.expected.kind = "tuple"
    /\ JsonLoads(probe.raw).ok
    /\ ArrayFitsTuple(JsonLoads(probe.raw).val, probe.expected) )
  => /\ probe.value = JsonLoads(probe.raw).val
     /\ probe.match = Matched(TRUE)
     /\ VibetoolsOutcome(TextResponse(probe.raw), probe.expected)
          = Returned(probe.value)

(***************************************************************************)
(* What a returned value is                                                *)
(***************************************************************************)

\* the text of the response that ended the evaluation, as the wrapper reads it
EndingText == Strip(responses[Len(responses)].text)

\* the evaluation has a declared return type and has returned a value
ReturnedDeclared ==
  /\ pc = "RESOLVED"
  /\ op # "vibe_eval_statement"
  /\ return_type.kind # "none"

\* C29: a value returned by an evaluation with a declared return type is
\* _maybe_coerce of the stripped text of the response that ended the
\* evaluation, and _is_match of that value and the type answered True; the
\* response that ended it is the last one, a text, and every earlier
\* response was a raise or a mismatch.
C29_ReturnedValueIsValidated ==
  ReturnedDeclared =>
    /\ Len(responses) = calls
    /\ responses[Len(responses)].kind = "text"
    /\ result.kind = "value"
    /\ IF impl = "vibetools"
       THEN /\ result.val = VibeBaseLlm_maybe_coerce(EndingText, return_type)
            /\ VibeBaseLlm_is_match(result.val, return_type) = Matched(TRUE)
       ELSE /\ result.val = LlmWrapper_maybe_coerce(EndingText, return_type)
            /\ LlmWrapper_match(result.val, return_type) = Matched(TRUE)
    /\ \A i \in 1..(Len(responses) - 1) : ~Conforms(responses[i], return_type)

\* "not an int", a raising call, then "8" for int: the value is 8, coerced
\* from the third response
C29_Witness ==
  /\ ReturnedDeclared
  /\ impl = "llms"
  /\ IsClass(return_type, "int")
  /\ Len(responses) = 3
  /\ responses[1] = TextResponse(TextNotAnInt)
  /\ responses[2].kind = "raise"
  /\ responses[3] = TextResponse(TextEight)
  /\ result = Returned(PyInt(8))

\* C30: the attempt policy of every evaluation of the llms wrappers has
\* num_tries >= 1, an evaluation that has ended has made at least one
\* backend call, and the number of backend calls never exceeds num_tries.
\* VibeCheckConfig accepts num_tries = 0, with which the loop has no pass.
C30_AtLeastOneAttempt ==
  impl = "llms" =>
    /\ calls <= config.num_tries
    /\ pc \in {"ATTEMPTING", "RESOLVED", "FAILED"} =>
         (config.num_tries >= 1 /\ calls >= 1)

(***************************************************************************)
(* Evaluations side by side                                                *)
(***************************************************************************)

\* what _run_with_timeout hands to its caller when the worker has ended: the
\* result, or a plain Exception chained to the worker's exception
Delivered(outcome) ==
  IF outcome.kind = "error" THEN Raised("Exception", outcome.err) ELSE outcome

\* an evaluation that has ended has the outcome it has when it runs alone:
\* the timeout error, or what _run_with_timeout hands over for the outcome
\* of vibe_eval on the one response to its own backend call; before its end
\* it has no outcome
OwnOutcomeOnly(state, rt, rs, res) ==
  IF state \in {"RESOLVED", "FAILED"}
  THEN \/ res = Raised("VibeTimeoutException", "")
       \/ /\ Len(rs) = 1
          /\ res = Delivered(VibetoolsOutcome(rs[1], rt))
  ELSE res = NoOutcome

TimedOut == pc = "FAILED" /\ result = Raised("VibeTimeoutException", "")

\* C25: a caller waiting for a backend call that is still running leaves the
\* wait only with VibeTimeoutException, and does leave it although nothing
\* makes the backend call return; the worker is left running and may end
\* later; what it then puts into its queue changes neither the outcome the
\* caller got nor the outcome of another evaluation on the client.
C25_TimeoutAbandonsTheCall ==
  /\ [][ (pc = "ATTEMPTING" /\ thread = "running" /\ pc' # pc)
           => (TimedOut' /\ thread' = "running") ]_vars
  /\ [][ TimedOut => (TimedOut' /\ thread' \in {"running", "finished"}) ]_vars
  /\ [](OwnOutcomeOnly(peer.pc, peer.return_type, peer.responses, peer.result))
  /\ (pc = "ATTEMPTING") ~> (pc \in {"RESOLVED", "FAILED"})

\* the call timed out, its worker ended later with the value 8, which stays
\* in its queue; the other evaluation returned the record of its own response
C25_Witness ==
  /\ TimedOut
  /\ thread = "finished"
  /\ wrapper_result = Returned(PyInt(8))
  /\ peer.pc = "RESOLVED"
  /\ peer.return_type = MyDataClass
  /\ peer.result.val.t = "MyDataClass"

====
